---- MODULE Spec2Model ----
(***************************************************************************)
(* A model of jupyter_marimo_proxy/handlers.py: the convert and restart    *)
(* request handlers, the route scan that recovers the proxy framework's    *)
(* state dict, and the borrowed proc_lock they share with the framework.   *)
(*                                                                         *)
(* The event loop is cooperative: a handler runs without interruption from *)
(* one await to the next, so every action below is one such segment.       *)
(***************************************************************************)
EXTENDS Integers, Sequences, FiniteSets, TLC

\* ------------------------------------------------------------------ bounds
NumRestarts == 2        \* concurrent restart requests
MaxHandles == 2         \* process handles the framework may create

Restarts == 1..NumRestarts
Handles == 1..MaxHandles
Converts == {"c1"}
RecIds == {1, 2}        \* state dicts that routes may carry

\* ------------------------------------------------------------------ values
\* The value stored under the 'proc' key of a state dict.
AbsentV == [kind |-> "absent", id |-> 0]
SentinelV == [kind |-> "process not managed", id |-> 0]
HandleV(h) == [kind |-> "handle", id |-> h]
ProcVals == {AbsentV, SentinelV} \cup {HandleV(h) : h \in Handles}

\* Tasks that may own or wait for a proc_lock.
NoTask == <<"none", 0>>
RTask(r) == <<"restart", r>>
STask == <<"spawn", 1>>

NoResp == [status |-> 0, success |-> FALSE, text |-> ""]
Resp(st, ok, txt) == [status |-> st, success |-> ok, text |-> txt]

VARIABLES
    handlers,    \* web_app.handlers: <<host group>>, each a sequence of route specs
    rec,         \* rec[i]: state dict i, as [has_lock, proc]
    lockOwner,   \* lockOwner[i]: the task holding rec[i]["proc_lock"]
    waiters,     \* waiters[i]: FIFO queue of tasks suspended on the lock
    nextHandle,  \* next fresh handle the framework will create
    rt,          \* rt[r]: restart request r
    sp,          \* the framework's spawning request
    cv,          \* cv[c]: convert request c
    cfg          \* configuration resolution under test

vars == <<handlers, rec, lockOwner, waiters, nextHandle, rt, sp, cv, cfg>>

\* ------------------------------------------------------- route table scan
RouteSpec(kw, st, m) == [has_kwargs |-> kw, state |-> st, marimo |-> m]

\* handlers.py:22-23 -- the test applied to one registered route.
Matches(s) == s.has_kwargs /\ s.state # 0 /\ s.marimo

RECURSIVE ScanSpecs(_)
ScanSpecs(specs) ==
    IF specs = <<>> THEN 0
    ELSE IF Matches(Head(specs)) THEN Head(specs).state
    ELSE ScanSpecs(Tail(specs))

\* handlers.py:14-25 -- first matching route's state dict; 0 stands for None.
RECURSIVE FindMarimoProxyState(_)
FindMarimoProxyState(hs) ==
    IF hs = <<>> THEN 0
    ELSE LET got == ScanSpecs(Head(hs))
         IN IF got # 0 THEN got ELSE FindMarimoProxyState(Tail(hs))

RouteTables ==
    { <<>>,
      << <<RouteSpec(FALSE, 0, FALSE), RouteSpec(TRUE, 0, TRUE)>> >>,
      << <<RouteSpec(TRUE, 2, FALSE), RouteSpec(TRUE, 1, TRUE)>> >>,
      << <<RouteSpec(TRUE, 0, TRUE)>>, <<RouteSpec(TRUE, 1, TRUE), RouteSpec(TRUE, 2, TRUE)>> >>,
      << <<RouteSpec(TRUE, 2, TRUE)>>, <<RouteSpec(TRUE, 1, TRUE)>> >> }

\* ------------------------------------------------------------ truthiness
\* A dict is falsy exactly when it has no entries.
DictEmpty(d) == ~d.has_lock /\ d.proc = AbsentV

\* handlers.py:77 -- `not proxy_state`
NotProxyStateMut(st) == st = 0
NotProxyState(st) == st = 0 \/ DictEmpty(rec[st])

\* handlers.py:85 -- `proc and proc != "process not managed"`;
\* dict.get returns None for a missing key, and None is falsy.
ShouldKillMut(p) == p # AbsentV
ShouldKill(p) == p # AbsentV /\ p # SentinelV

\* handlers.py:91-92 -- `if "proc" in proxy_state: del proxy_state["proc"]`
ClearProcMut(d) == d
ClearProc(d) == [d EXCEPT !.proc = AbsentV]

\* ---------------------------------------------------------------- the lock
\* handlers.py:83 -- entering `async with proxy_state["proc_lock"]` succeeds at
\* once only if the lock is free and nobody is queued before the caller.
CanAcquireMut(i) == TRUE
CanAcquire(i) == lockOwner[i] = NoTask /\ waiters[i] = <<>>

\* handlers.py:83-92 -- leaving the `async with` block releases the lock.
RestartReleaseMut(i, r) == lockOwner' = [lockOwner EXCEPT ![i] = RTask(r)]
RestartRelease(i, r) == lockOwner' = [lockOwner EXCEPT ![i] = NoTask]

\* ------------------------------------------------------ restart requests
RtIdle == [pc |-> "idle", state |-> 0, proc |-> AbsentV, kills |-> <<>>,
           kill_raised |-> FALSE,
           deleted |-> AbsentV, atRelease |-> AbsentV, resp |-> NoResp,
           raised |-> "none"]

\* handlers.py:90-94 -- clear the entry, leave the lock, answer 200.
RestartClearAndFinish(r, i, p, ks, raises) ==
    /\ rec' = [rec EXCEPT ![i] = ClearProc(rec[i])]
    /\ RestartRelease(i, r)
    /\ rt' = [rt EXCEPT ![r] =
                [@ EXCEPT !.pc = "done", !.state = i, !.proc = p, !.kills = ks, !.kill_raised = raises,
                          !.deleted = IF rec'[i].proc = AbsentV THEN rec[i].proc ELSE AbsentV,
                          !.atRelease = rec'[i].proc,
                          !.resp = Resp(200, TRUE, "Server restarting")]]

\* handlers.py:84-92 -- the locked section up to its first await.
RestartLocked(r, i) ==
    LET p == rec[i].proc
    IN IF ShouldKill(p)
       THEN /\ rt' = [rt EXCEPT ![r] =
                        [@ EXCEPT !.pc = "killing", !.state = i, !.proc = p,
                                  !.kills = Append(@, p)]]
            /\ lockOwner' = [lockOwner EXCEPT ![i] = RTask(r)]
            /\ UNCHANGED rec
       ELSE RestartClearAndFinish(r, i, p, rt[r].kills, FALSE)

\* handlers.py:75-83 -- scan, the 503 answer, and the attempt to take the lock.
RestartPost(r) ==
    /\ rt[r].pc = "idle"
    /\ LET st == FindMarimoProxyState(handlers)
       IN IF NotProxyState(st)
          THEN /\ rt' = [rt EXCEPT ![r] =
                           [@ EXCEPT !.pc = "done",
                                     !.resp = Resp(503, FALSE, "Proxy not initialized yet")]]
               /\ UNCHANGED <<rec, lockOwner, waiters>>
          ELSE IF ~rec[st].has_lock
          THEN \* proxy_state["proc_lock"] raises KeyError, caught at line 95
               /\ rt' = [rt EXCEPT ![r] =
                           [@ EXCEPT !.pc = "done", !.state = st,
                                     !.resp = Resp(500, FALSE, "'proc_lock'")]]
               /\ UNCHANGED <<rec, lockOwner, waiters>>
          ELSE IF CanAcquire(st)
          THEN /\ RestartLocked(r, st)
               /\ UNCHANGED waiters
          ELSE /\ rt' = [rt EXCEPT ![r] = [@ EXCEPT !.pc = "wait_lock", !.state = st]]
               /\ waiters' = [waiters EXCEPT ![st] = Append(@, RTask(r))]
               /\ UNCHANGED <<rec, lockOwner>>
    /\ UNCHANGED <<handlers, nextHandle, sp, cv, cfg>>

\* handlers.py:83 -- a queued restart is woken once the lock is free.
RestartAcquired(r) ==
    /\ rt[r].pc = "wait_lock"
    /\ LET i == rt[r].state
       IN /\ lockOwner[i] = NoTask
          /\ waiters[i] # <<>>
          /\ Head(waiters[i]) = RTask(r)
          /\ waiters' = [waiters EXCEPT ![i] = Tail(@)]
          /\ RestartLocked(r, i)
    /\ UNCHANGED <<handlers, nextHandle, sp, cv, cfg>>

\* handlers.py:86-94 -- `await proc.kill()` returns or raises; either way the
\* handler goes on to clear the entry.
RestartKillDone(r, raises) ==
    /\ rt[r].pc = "killing"
    /\ LET i == rt[r].state
       IN RestartClearAndFinish(r, i, rt[r].proc, rt[r].kills, raises)
    /\ UNCHANGED <<handlers, waiters, nextHandle, sp, cv, cfg>>

\* ------------------------------------------- the proxy framework's side
\* The framework gives a route's state dict its lock when the proxy handler
\* for that route is first initialised.
ProxyInitialize(i) ==
    /\ ~rec[i].has_lock
    /\ rec' = [rec EXCEPT ![i].has_lock = TRUE]
    /\ UNCHANGED <<handlers, lockOwner, waiters, nextHandle, rt, sp, cv, cfg>>

\* Inside the lock the framework sets 'proc' only when it is absent: either a
\* fresh process handle or the "process not managed" sentinel.
SpawnLocked(i) ==
    /\ lockOwner' = [lockOwner EXCEPT ![i] = STask]
    /\ sp' = [pc |-> "starting", state |-> i]
    /\ IF rec[i].proc = AbsentV
       THEN \E unmanaged \in BOOLEAN :
              IF unmanaged
              THEN /\ rec' = [rec EXCEPT ![i].proc = SentinelV]
                   /\ UNCHANGED nextHandle
              ELSE /\ rec' = [rec EXCEPT ![i].proc = HandleV(nextHandle)]
                   /\ nextHandle' = nextHandle + 1
       ELSE UNCHANGED <<rec, nextHandle>>

\* A proxied request arrives for route state i and asks for the lock.
SpawnRequest(i) ==
    /\ sp.pc = "idle"
    /\ rec[i].has_lock
    /\ nextHandle <= MaxHandles
    /\ IF lockOwner[i] = NoTask /\ waiters[i] = <<>>
       THEN /\ SpawnLocked(i)
            /\ UNCHANGED waiters
       ELSE /\ sp' = [pc |-> "wait_lock", state |-> i]
            /\ waiters' = [waiters EXCEPT ![i] = Append(@, STask)]
            /\ UNCHANGED <<rec, lockOwner, nextHandle>>
    /\ UNCHANGED <<handlers, rt, cv, cfg>>

SpawnAcquired ==
    /\ sp.pc = "wait_lock"
    /\ LET i == sp.state
       IN /\ lockOwner[i] = NoTask
          /\ waiters[i] # <<>>
          /\ Head(waiters[i]) = STask
          /\ waiters' = [waiters EXCEPT ![i] = Tail(@)]
          /\ SpawnLocked(i)
    /\ UNCHANGED <<handlers, rt, cv, cfg>>

\* The process has started; the framework leaves the lock.
SpawnDone ==
    /\ sp.pc = "starting"
    /\ lockOwner' = [lockOwner EXCEPT ![sp.state] = NoTask]
    /\ sp' = [pc |-> "idle", state |-> 0]
    /\ UNCHANGED <<handlers, rec, waiters, nextHandle, rt, cv, cfg>>

\* ------------------------------------------------ configuration resolution
Unset == "<unset>"
DEFAULT_TIMEOUT == 60
MaxEnvLen == 2          \* longest JUPYTERMARIMOPROXY_TIMEOUT text tried

Digits == {"0", "3"}
EnvChars == Digits \cup {"-", "x"}
DigitVal(ch) == IF ch = "3" THEN 3 ELSE 0

RECURSIVE DigitsValue(_, _)
DigitsValue(t, acc) ==
    IF t = <<>> THEN acc ELSE DigitsValue(Tail(t), 10 * acc + DigitVal(Head(t)))

AllDigits(t) == t # <<>> /\ \A k \in 1..Len(t) : t[k] \in Digits

\* int(text): an optional sign followed by decimal digits, else ValueError.
ParseInt(t) ==
    IF AllDigits(t) THEN [ok |-> TRUE, val |-> DigitsValue(t, 0)]
    ELSE IF t # <<>> /\ Head(t) = "-" /\ AllDigits(Tail(t))
    THEN [ok |-> TRUE, val |-> 0 - DigitsValue(Tail(t), 0)]
    ELSE [ok |-> FALSE, val |-> 0]

NoOverride == [marimo_path |-> Unset, uvx_path |-> Unset,
               timeout |-> [set |-> FALSE, val |-> 0]]

\* Timeout taken from the environment: the parsed variable, else the default.
EnvTimeout(env) ==
    IF env.timeout.set /\ ParseInt(env.timeout.text).ok
    THEN ParseInt(env.timeout.text).val
    ELSE DEFAULT_TIMEOUT

\* get_config: per field, structured override, else environment, else default.
GetConfigMut(ov, env) ==
    [marimo_path |-> IF env.marimo_path # Unset THEN env.marimo_path ELSE ov.marimo_path,
     uvx_path |-> IF env.uvx_path # Unset THEN env.uvx_path ELSE ov.uvx_path,
     timeout |-> IF env.timeout.set /\ ParseInt(env.timeout.text).ok
                 THEN ParseInt(env.timeout.text).val
                 ELSE IF ov.timeout.set THEN ov.timeout.val ELSE DEFAULT_TIMEOUT]
GetConfig(ov, env) ==
    [marimo_path |-> IF ov.marimo_path # Unset THEN ov.marimo_path ELSE env.marimo_path,
     uvx_path |-> IF ov.uvx_path # Unset THEN ov.uvx_path ELSE env.uvx_path,
     timeout |-> IF ov.timeout.set THEN ov.timeout.val ELSE EnvTimeout(env)]

\* get_marimo_command: explicit path, else first common location holding the
\* tool, else the package runner, else failure (the empty command here).
GetMarimoCommand(config, found, runner) ==
    IF config.marimo_path # Unset THEN <<config.marimo_path>>
    ELSE IF found # Unset THEN <<found>>
    ELSE IF config.uvx_path # Unset THEN <<config.uvx_path, "marimo">>
    ELSE IF runner # Unset THEN <<runner, "marimo">>
    ELSE <<>>

TimeoutTexts ==
    UNION { [1..n -> EnvChars] : n \in 0..MaxEnvLen }
Overrides ==
    [marimo_path : {Unset, "/traitlets/marimo"}, uvx_path : {Unset, "/traitlets/uvx"},
     timeout : {[set |-> FALSE, val |-> 0], [set |-> TRUE, val |-> 90]}]
Envs ==
    [marimo_path : {Unset, "/env/marimo"}, uvx_path : {Unset, "/env/uvx"},
     timeout : {[set |-> FALSE, text |-> <<>>]}
               \cup {[set |-> TRUE, text |-> t] : t \in TimeoutTexts}]

CfgOff == [phase |-> "off", ov |-> NoOverride,
           env |-> [marimo_path |-> Unset, uvx_path |-> Unset,
                    timeout |-> [set |-> FALSE, text |-> <<>>]],
           out |-> GetConfig(NoOverride,
                             [marimo_path |-> Unset, uvx_path |-> Unset,
                              timeout |-> [set |-> FALSE, text |-> <<>>]])]

\* One call get_config(traitlets_config) in the environment env.
ResolveConfig ==
    /\ cfg.phase = "input"
    /\ cfg' = [cfg EXCEPT !.phase = "resolved", !.out = GetConfig(cfg.ov, cfg.env)]
    /\ UNCHANGED <<handlers, rec, lockOwner, waiters, nextHandle, rt, sp, cv>>

\* -------------------------------------------------------- convert requests
Missing == "<missing>"   \* the key is not in the JSON object: dict.get gives None

Bodies ==
    {[kind |-> "malformed", input |-> Missing, output |-> Missing],
     [kind |-> "array", input |-> Missing, output |-> Missing]}
    \cup [kind : {"object"}, input : {Missing, "", "a.ipynb"},
          output : {Missing, "", "a.py"}]

ConvertEnvs ==
    [marimo_path : {Unset, "/env/marimo"}, uvx_path : {Unset, "/env/uvx"},
     timeout : {[set |-> FALSE, text |-> <<>>]}]

\* What subprocess.run can do: return a CompletedProcess, or raise OSError
\* because the command could not be executed.
RunOutcomes ==
    [kind : {"returned"}, returncode : {0, 1}, stderr : {"", "boom"},
     stdout : {"", "out"}]
    \cup {[kind |-> "returned", returncode |-> 2, stderr |-> "boom", stdout |-> "out"]}
    \cup {[kind |-> "oserror", returncode |-> 0, stderr |-> "", stdout |-> ""]}

NoRun == [kind |-> "none", returncode |-> 0, stderr |-> "", stdout |-> ""]

CvIdle == [pc |-> "idle", body |-> [kind |-> "none", input |-> Missing, output |-> Missing],
           config_calls |-> 0, locator_calls |-> 0, cmd |-> <<>>, runs |-> <<>>,
           result |-> NoRun, resp |-> NoResp, raised |-> "none"]

\* None and the empty string are falsy.
Falsy(v) == v = Missing \/ v = ""

\* handlers.py:42 -- `not input_path or not output_path`
MissingPathMut(inp, outp) == Falsy(inp) /\ Falsy(outp)
MissingPath(inp, outp) == Falsy(inp) \/ Falsy(outp)

\* handlers.py:60 -- `result.stderr or result.stdout`
ErrorTextMut(res) == res.stderr
ErrorText(res) == IF res.stderr # "" THEN res.stderr ELSE res.stdout

\* handlers.py:51 -- the argument vector handed to subprocess.run
ConvertArgv(cmd, inp, outp) == cmd \o <<"convert", inp, "-o", outp>>

\* handlers.py:56-60 -- the answer for a completed subprocess
ConvertAnswer(res, outp) ==
    IF res.returncode = 0 THEN Resp(200, TRUE, outp)
    ELSE Resp(500, FALSE, ErrorText(res))

\* handlers.py:38-60 -- the whole handler: it contains no await, so it runs
\* from the first line to its end in one step of the event loop.
ConvertPost(c) ==
    /\ cv[c].pc = "idle"
    /\ \E body \in Bodies :
         IF body.kind = "malformed"
         THEN cv' = [cv EXCEPT ![c] = [@ EXCEPT !.pc = "done", !.body = body,
                                                !.raised = "JSONDecodeError"]]
         ELSE IF body.kind = "array"
         THEN cv' = [cv EXCEPT ![c] = [@ EXCEPT !.pc = "done", !.body = body,
                                                !.raised = "AttributeError"]]
         ELSE IF MissingPath(body.input, body.output)
         THEN cv' = [cv EXCEPT ![c] =
                       [@ EXCEPT !.pc = "done", !.body = body,
                                 !.resp = Resp(400, FALSE, "Missing input or output path")]]
         ELSE \E env \in ConvertEnvs, found \in {Unset, "/opt/bin/marimo"},
                 runner \in {Unset, "/usr/bin/uvx"} :
                LET config == GetConfig(NoOverride, env)
                    cmd == GetMarimoCommand(config, found, runner)
                IN IF cmd = <<>>
                   THEN cv' = [cv EXCEPT ![c] =
                                 [@ EXCEPT !.pc = "done", !.body = body,
                                           !.config_calls = 1, !.locator_calls = 1,
                                           !.raised = "MarimoNotFound"]]
                   ELSE \E res \in RunOutcomes :
                          cv' = [cv EXCEPT ![c] =
                                   [@ EXCEPT !.pc = "done", !.body = body,
                                             !.config_calls = 1, !.locator_calls = 1,
                                             !.cmd = cmd,
                                             !.runs = <<ConvertArgv(cmd, body.input, body.output)>>,
                                             !.result = res,
                                             !.resp = IF res.kind = "returned"
                                                      THEN ConvertAnswer(res, body.output)
                                                      ELSE NoResp,
                                             !.raised = IF res.kind = "returned"
                                                        THEN "none" ELSE "OSError"]]
    /\ UNCHANGED <<handlers, rec, lockOwner, waiters, nextHandle, rt, sp, cfg>>

\* ------------------------------------------------------- specifications
InitRecs ==
    [has_lock : BOOLEAN, proc : {AbsentV, SentinelV, HandleV(1)}]
FreshRecs ==
    [has_lock : BOOLEAN, proc : {AbsentV}]

Init ==
    /\ handlers \in RouteTables
    /\ rec \in {f \in [RecIds -> InitRecs] : f[2] \in FreshRecs}
    /\ lockOwner = [i \in RecIds |-> NoTask]
    /\ waiters = [i \in RecIds |-> <<>>]
    /\ nextHandle = 2
    /\ rt = [r \in Restarts |-> RtIdle]
    /\ sp = [pc |-> "idle", state |-> 0]
    /\ cv = [c \in Converts |-> CvIdle]
    /\ cfg = CfgOff

Next ==
    \/ \E r \in Restarts : RestartPost(r)
    \/ \E r \in Restarts : RestartAcquired(r)
    \/ \E r \in Restarts, raises \in BOOLEAN : RestartKillDone(r, raises)
    \/ \E i \in RecIds : ProxyInitialize(i)
    \/ \E i \in RecIds : SpawnRequest(i)
    \/ SpawnAcquired
    \/ SpawnDone
    \/ \E c \in Converts : ConvertPost(c)

Spec == Init /\ [][Next]_vars

\* Configuration resolution on its own: inputs drawn from the bounded sets.
InitConfig ==
    /\ handlers = <<>>
    /\ rec = [i \in RecIds |-> [has_lock |-> FALSE, proc |-> AbsentV]]
    /\ lockOwner = [i \in RecIds |-> NoTask]
    /\ waiters = [i \in RecIds |-> <<>>]
    /\ nextHandle = 1
    /\ rt = [r \in Restarts |-> RtIdle]
    /\ sp = [pc |-> "idle", state |-> 0]
    /\ cv = [c \in Converts |-> CvIdle]
    /\ \E ov \in Overrides, env \in Envs :
         cfg = [phase |-> "input", ov |-> ov, env |-> env, out |-> GetConfig(NoOverride, env)]

NextConfig == ResolveConfig

SpecConfig == InitConfig /\ [][NextConfig]_vars

\* Restart and spawn alone on one registered, initialised state dict, with the
\* fairness the event loop gives: a woken waiter is resumed, an awaited kill
\* returns or raises, a started spawn leaves the lock.  Arrivals of requests
\* are not fair: no request has to come.
InitLive ==
    /\ handlers = << <<RouteSpec(TRUE, 2, FALSE), RouteSpec(TRUE, 1, TRUE)>> >>
    /\ rec = [i \in RecIds |-> IF i = 1 THEN [has_lock |-> TRUE, proc |-> HandleV(1)]
                                ELSE [has_lock |-> FALSE, proc |-> AbsentV]]
    /\ lockOwner = [i \in RecIds |-> NoTask]
    /\ waiters = [i \in RecIds |-> <<>>]
    /\ nextHandle = 2
    /\ rt = [r \in Restarts |-> RtIdle]
    /\ sp = [pc |-> "idle", state |-> 0]
    /\ cv = [c \in Converts |-> CvIdle]
    /\ cfg = CfgOff

Fairness ==
    /\ \A r \in Restarts : WF_vars(RestartAcquired(r))
    /\ \A r \in Restarts : WF_vars(\E raises \in BOOLEAN : RestartKillDone(r, raises))
    /\ WF_vars(SpawnAcquired)
    /\ WF_vars(SpawnDone)

SpecLive == InitLive /\ [][Next]_vars /\ Fairness

\* ------------------------------------------------------------------ claims
Found == FindMarimoProxyState(handlers)
RestartFinished(r) == rt[r].pc = "done"
InLockedSection(r) == rt[r].pc = "killing"
Answered200(r) == rt[r].resp = Resp(200, TRUE, "Server restarting")

\* C1: a restart holds proc_lock from its read of 'proc' until the entry is
\* removed: while it is suspended in the kill it owns the lock and the entry is
\* still the value it read, the framework's spawn owns the lock whenever it is
\* inside its own locked section, and what a restart deletes is what it read.
C1_LockHeldReadToClear ==
    /\ \A r \in Restarts :
         InLockedSection(r) =>
           /\ lockOwner[rt[r].state] = RTask(r)
           /\ rec[rt[r].state].proc = rt[r].proc
    /\ sp.pc = "starting" => lockOwner[sp.state] = STask
    /\ \A r \in Restarts :
         (RestartFinished(r) /\ rt[r].deleted # AbsentV) => rt[r].deleted = rt[r].proc

\* A restart deleted the handle it read while another restart and the spawn
\* were queued on the same lock.
C1_Witness ==
    \E r \in Restarts, q \in Restarts :
       /\ r # q
       /\ RestartFinished(r) /\ rt[r].deleted.kind = "handle"
       /\ rt[q].pc = "wait_lock" /\ rt[q].state = rt[r].state
       /\ sp.pc = "wait_lock" /\ sp.state = rt[r].state

\* C2: a restart that read a real process handle under the lock attempted to
\* kill exactly that handle, left no 'proc' entry in the dict when it released
\* the lock, and answered 200 "Server restarting", whether or not kill raised.
C2_RealHandleKilledAndCleared ==
    \A r \in Restarts :
       (RestartFinished(r) /\ rt[r].proc.kind = "handle") =>
          /\ rt[r].kills = <<rt[r].proc>>
          /\ rt[r].atRelease = AbsentV
          /\ rt[r].deleted = rt[r].proc
          /\ Answered200(r)
          /\ rt[r].raised = "none"

\* The kill raised, the restart still answered 200, and the framework has since
\* put a fresh handle into the same dict.
C2_Witness ==
    \E r \in Restarts :
       /\ RestartFinished(r) /\ rt[r].proc = HandleV(1) /\ rt[r].kill_raised
       /\ Answered200(r)
       /\ rec[rt[r].state].proc = HandleV(2)

\* C3: a restart that read the "process not managed" sentinel attempted no
\* kill, still removed the entry and answered 200; and any restart attempts at
\* most one kill, only on the real handle it read.
C3_SentinelNotKilled ==
    \A r \in Restarts :
       /\ (RestartFinished(r) /\ rt[r].proc = SentinelV) =>
             /\ rt[r].kills = <<>>
             /\ rt[r].atRelease = AbsentV
             /\ rt[r].deleted = SentinelV
             /\ Answered200(r)
       /\ Len(rt[r].kills) <= 1
       /\ \A k \in 1..Len(rt[r].kills) :
             rt[r].kills[k].kind = "handle" /\ rt[r].kills[k] = rt[r].proc

C3_Witness ==
    \E r \in Restarts :
       /\ RestartFinished(r) /\ rt[r].proc = SentinelV /\ Answered200(r)
       /\ rt[r].kills = <<>> /\ rec[rt[r].state].proc = AbsentV

\* C4 as stated: a restart answers 503 exactly when the route scan finds no
\* state dict.
C4_Original ==
    \A r \in Restarts :
       RestartFinished(r) => (rt[r].resp.status = 503 <=> Found = 0)

\* C4 amended: a restart answers 503 "Proxy not initialized yet" exactly when
\* the scan finds no state dict or the dict of the first matching route has no
\* entries, and then it touches neither the dicts nor a lock and kills nothing;
\* with a non-empty dict it goes on to the lock (500 if the dict has none).
C4_Amended ==
    [][\A r \in Restarts :
         (rt[r].pc = "idle" /\ rt'[r].pc # "idle") =>
            IF Found = 0 \/ DictEmpty(rec[Found])
            THEN /\ rt'[r].pc = "done"
                 /\ rt'[r].resp = Resp(503, FALSE, "Proxy not initialized yet")
                 /\ rt'[r].kills = <<>>
                 /\ UNCHANGED <<rec, lockOwner, waiters>>
            ELSE /\ rt'[r].resp.status # 503
                 /\ rt'[r].state = Found
                 /\ IF rec[Found].has_lock
                    THEN \/ rt'[r].pc = "wait_lock" /\ rt'[r].resp = NoResp
                         \/ rt'[r].pc = "killing" /\ lockOwner'[Found] = RTask(r)
                         \/ rt'[r].pc = "done" /\ rt'[r].resp.status = 200
                    ELSE rt'[r].pc = "done" /\ rt'[r].resp.status = 500]_vars

\* One restart was refused with 503 on a dict that was still empty, and after
\* the framework initialised the dict a later restart went through.
C4_Witness ==
    \E r \in Restarts, q \in Restarts :
       /\ Found # 0
       /\ RestartFinished(r) /\ rt[r].resp.status = 503
       /\ RestartFinished(q) /\ rt[q].resp.status = 200

\* C5: every finished convert or restart request ended with a JSON answer
\* written by the handler; no exception left post().
C5_NoExceptionEscapes ==
    /\ \A c \in Converts :
         cv[c].pc = "done" => (cv[c].raised = "none" /\ cv[c].resp.status # 0)
    /\ \A r \in Restarts :
         RestartFinished(r) => (rt[r].raised = "none" /\ rt[r].resp.status # 0)

ConvertFinished(c) == cv[c].pc = "done"
IsObject(c) == cv[c].body.kind = "object"
LacksField(c) == cv[c].body.input = Missing \/ cv[c].body.output = Missing
NothingInvoked(c) ==
    cv[c].config_calls = 0 /\ cv[c].locator_calls = 0 /\ cv[c].runs = <<>>

\* C6 as stated, second half: a convert request carrying both fields never
\* takes the 400 path.
C6_Original ==
    \A c \in Converts :
       (ConvertFinished(c) /\ IsObject(c) /\ ~LacksField(c)) => cv[c].resp.status # 400

\* C6 amended: a convert request whose body lacks "input" or "output", or
\* carries an empty one, is answered 400 with the structured error and neither
\* configuration, locator nor subprocess is invoked; a request carrying two
\* non-empty fields never takes the 400 path.
C6_Amended ==
    \A c \in Converts :
       (ConvertFinished(c) /\ IsObject(c)) =>
          IF LacksField(c) \/ cv[c].body.input = "" \/ cv[c].body.output = ""
          THEN /\ cv[c].resp = Resp(400, FALSE, "Missing input or output path")
               /\ NothingInvoked(c)
               /\ cv[c].raised = "none"
          ELSE cv[c].resp.status # 400

\* A request without "input" but with an output path was refused.
C6_Witness ==
    \E c \in Converts :
       /\ ConvertFinished(c) /\ IsObject(c)
       /\ cv[c].body.input = Missing /\ cv[c].body.output = "a.py"
       /\ cv[c].resp.status = 400 /\ NothingInvoked(c)

ExitCodeAnswer(c) ==
    LET res == cv[c].result
    IN IF res.returncode = 0
       THEN cv[c].resp = [status |-> 200, success |-> TRUE, text |-> cv[c].body.output]
       ELSE /\ cv[c].resp.status = 500 /\ ~cv[c].resp.success
            /\ (res.stderr # "" => cv[c].resp.text = res.stderr)
            /\ (res.stderr = "" => cv[c].resp.text = res.stdout)

\* C7 as stated: with both fields present the tool is invoked exactly once and
\* the answer follows from its exit code alone.
C7_Original ==
    \A c \in Converts :
       (ConvertFinished(c) /\ IsObject(c) /\ ~LacksField(c)) =>
          (Len(cv[c].runs) = 1 /\ ExitCodeAnswer(c))

\* C7 amended: no convert request invokes the tool more than once; a request
\* with two non-empty fields for which a launch command is found invokes it
\* exactly once, as <launch command> convert <input> -o <output>; and when that
\* invocation returns, exit code 0 gives 200 with the output path and any other
\* exit code gives 500 with the captured stderr, or the captured stdout when
\* stderr is empty.
C7_Amended ==
    \A c \in Converts :
       /\ Len(cv[c].runs) <= 1
       /\ (ConvertFinished(c) /\ IsObject(c)
             /\ ~Falsy(cv[c].body.input) /\ ~Falsy(cv[c].body.output)
             /\ cv[c].cmd # <<>>) =>
            /\ Len(cv[c].runs) = 1
            /\ LET a == cv[c].runs[1]
                   n == Len(cv[c].cmd)
               IN /\ Len(a) = n + 4
                  /\ SubSeq(a, 1, n) = cv[c].cmd
                  /\ a[n + 1] = "convert" /\ a[n + 2] = cv[c].body.input
                  /\ a[n + 3] = "-o" /\ a[n + 4] = cv[c].body.output
            /\ cv[c].result.kind = "returned" => ExitCodeAnswer(c)

\* The tool exited non-zero with empty stderr and the answer carries stdout.
C7_Witness ==
    \E c \in Converts :
       /\ ConvertFinished(c) /\ cv[c].result.kind = "returned"
       /\ cv[c].result.returncode = 1 /\ cv[c].result.stderr = ""
       /\ cv[c].resp = [status |-> 500, success |-> FALSE, text |-> "out"]
       /\ cv[c].runs = << <<"/env/uvx", "marimo", "convert", "a.ipynb", "-o", "a.py">> >>

IsIntText(t) ==
    \/ t # <<>> /\ \A k \in 1..Len(t) : t[k] \in Digits
    \/ Len(t) > 1 /\ t[1] = "-" /\ \A k \in 2..Len(t) : t[k] \in Digits

\* C8: get_config resolves each field on its own: the structured override if
\* set, else the environment variable if set (timeout: set and an integer),
\* else the built-in default.
C8_PerFieldPrecedence ==
    cfg.phase = "resolved" =>
       /\ cfg.ov.marimo_path # Unset => cfg.out.marimo_path = cfg.ov.marimo_path
       /\ cfg.ov.marimo_path = Unset => cfg.out.marimo_path = cfg.env.marimo_path
       /\ cfg.ov.uvx_path # Unset => cfg.out.uvx_path = cfg.ov.uvx_path
       /\ cfg.ov.uvx_path = Unset => cfg.out.uvx_path = cfg.env.uvx_path
       /\ cfg.ov.timeout.set => cfg.out.timeout = cfg.ov.timeout.val
       /\ (~cfg.ov.timeout.set /\ cfg.env.timeout.set /\ IsIntText(cfg.env.timeout.text)) =>
             cfg.out.timeout = ParseInt(cfg.env.timeout.text).val
       /\ (~cfg.ov.timeout.set /\ ~(cfg.env.timeout.set /\ IsIntText(cfg.env.timeout.text))) =>
             cfg.out.timeout = DEFAULT_TIMEOUT

\* An override of the tool path beside an environment timeout of "30" and an
\* environment tool path: the path comes from the override, the timeout from
\* the environment.
C8_Witness ==
    /\ cfg.phase = "resolved"
    /\ cfg.ov.marimo_path = "/traitlets/marimo" /\ cfg.env.marimo_path = "/env/marimo"
    /\ ~cfg.ov.timeout.set /\ cfg.env.timeout = [set |-> TRUE, text |-> <<"3", "0">>]
    /\ cfg.out.marimo_path = "/traitlets/marimo" /\ cfg.out.timeout = 30

\* C9 as stated: while a restart holds the lock no other request takes a step.
C9_Original ==
    [][\A r \in Restarts, i \in RecIds :
         (lockOwner[i] = RTask(r) /\ lockOwner'[i] = RTask(r)) =>
            /\ \A q \in Restarts \ {r} : rt'[q] = rt[q]
            /\ cv' = cv /\ sp' = sp]_vars

\* C9 amended: a convert request never yields (it is answered in the step that
\* starts it); a restart request yields only while queued for the lock and
\* while awaiting the kill, and the await of the kill is the only point at
\* which it is suspended holding the lock.
C9_Amended ==
    /\ \A c \in Converts : cv[c].pc \in {"idle", "done"}
    /\ \A r \in Restarts : rt[r].pc \in {"idle", "wait_lock", "killing", "done"}
    /\ \A r \in Restarts, i \in RecIds :
         lockOwner[i] = RTask(r) => (rt[r].pc = "killing" /\ rt[r].state = i)

\* A convert request was answered while a restart was suspended in the kill,
\* holding the lock.
C9_Witness ==
    \E r \in Restarts, c \in Converts :
       /\ rt[r].pc = "killing" /\ lockOwner[rt[r].state] = RTask(r)
       /\ ConvertFinished(c) /\ cv[c].resp.status = 200

LockNotLeftHeld ==
    \A r \in Restarts, i \in RecIds :
       RestartFinished(r) =>
          (lockOwner[i] # RTask(r) /\ \A k \in 1..Len(waiters[i]) : waiters[i][k] # RTask(r))

\* C10: a finished restart request neither holds nor waits for a lock, and
\* under the event loop's fairness every restart or spawn queued on the lock
\* eventually acquires it.
C10_LockAlwaysReleased ==
    /\ []LockNotLeftHeld
    /\ \A r \in Restarts : (rt[r].pc = "wait_lock") ~> (rt[r].pc \in {"killing", "done"})
    /\ (sp.pc = "wait_lock") ~> (sp.pc = "starting")

\* A restart whose kill raised has finished without the lock, and another
\* restart on the same dict has been answered 200 as well.
C10_Witness ==
    \E r \in Restarts, q \in Restarts :
       /\ r # q
       /\ RestartFinished(r) /\ rt[r].kill_raised /\ rt[r].kills # <<>>
       /\ RestartFinished(q) /\ Answered200(q) /\ rt[q].state = rt[r].state
       /\ lockOwner[rt[r].state] # RTask(r)

====
